---------------------------- MODULE Spec2Model ----------------------------
(***************************************************************************)
(* Best-buddy matrix, segment search and board pruning of the jigsaw       *)
(* puzzle solver (jigsolver/puzzle.py, jigsolver/segmenter.py and          *)
(* jigsolver/pomeranz_solver/segmenter.py).                                *)
(*                                                                         *)
(* Pieces are named by their id (the index in the shuffled bag of pieces). *)
(* Tensors (CM, BB) are functions piece -> piece -> border value -> number.*)
(* A picture is an abstract value: Piece.__eq__ (np.allclose on integer    *)
(* pixel data) is equality of pictures.                                    *)
(***************************************************************************)
EXTENDS Integers, Sequences, FiniteSets, TLC

VARIABLES
    shape,      \* Puzzle.shape = Board._grid.shape: <<n_rows, n_columns>>
    picture,    \* Piece.picture, per piece of the bag
    board,      \* Board._grid: cell -> Slot or Piece
    is_placed,  \* Piece._is_placed, per piece
    position,   \* Piece.position, per piece (NoPosition until first placed)
    CM,         \* the caller's compatibility tensor (a numpy array, shared)
    BB,         \* the tensor returned by BestBuddies_matrix
    pc,         \* where the driver stands
    n_iter,     \* segmenter: number of trials to run
    segments,   \* segmenter: list of the segments found so far
    seed,       \* segmenter: (init_col, init_row) of the running trial
    segment,    \* find_segment: the growing segment (one shared list)
    stack,      \* find_segment: call stack, one frame [pos, k] per call
    calls,      \* find_segment: recursive calls made in the running trial
    result      \* segmenter: returned value

vars == <<shape, picture, board, is_placed, position, CM, BB, pc,
          n_iter, segments, seed, segment, stack, calls, result>>

boardVars == <<shape, picture, board, is_placed, position>>
segVars == <<n_iter, segments, seed, segment, stack, calls, result>>

-----------------------------------------------------------------------------
(* Bounds of the model *)

MaxPieces == 2      \* SpecBB: tensors of 1..MaxPieces pieces
MaxNonZero == 2     \* input tensors hold at most this many non-zero entries
MaxVal == 2         \* compatibility levels 0..MaxVal (only their order matters)
NumPics == 4        \* distinct pictures available to the pieces
MaxIter == 1        \* explicit n_iter arguments are 1..MaxIter
MaxTrialRows == 6   \* SpecTrials: boards of 1..MaxTrialRows rows
MaxTrialCols == 6   \* SpecTrials: boards of 1..MaxTrialCols columns

BoardShapes == {<<2, 2>>}

-----------------------------------------------------------------------------
(* Border (puzzle.py) *)

TOP == 0
RIGHT == 1
BOTTOM == 2
LEFT == 3

Border == {TOP, RIGHT, BOTTOM, LEFT}

\* a quarter turn instead of a half turn
oppositeSkewed(b) == (b + 1) % 4

opposite(b) == (b + 2) % 4

-----------------------------------------------------------------------------
(* Tensors and BestBuddies_matrix (pomeranz_solver/segmenter.py) *)

Ids(n) == 0 .. (n - 1)

NumPieces(t) == Cardinality(DOMAIN t)

ZeroTensor(n) == [i \in Ids(n) |-> [j \in Ids(n) |-> [b \in Border |-> 0]]]

RECURSIVE SparseTensors(_, _)
SparseTensors(n, k) ==
    IF k = 0 THEN {ZeroTensor(n)}
    ELSE LET S == SparseTensors(n, k - 1)
         IN  S \cup { [t EXCEPT ![i][j][b] = v] :
                        t \in S, i \in Ids(n), j \in Ids(n), b \in Border, v \in 1..MaxVal }

CMInputs(n) == SparseTensors(n, MaxNonZero)

\* np.fill_diagonal(CM[:,:,k], 0) for every k
fill_diagonal(cm) ==
    [i \in DOMAIN cm |-> [j \in DOMAIN cm |-> [b \in Border |->
        IF i = j THEN 0 ELSE cm[i][j][b]]]]

\* a scan that keeps the last maximum instead of the first
RECURSIVE argmaxScanLast(_, _, _, _)
argmaxScanLast(row, n, k, best) ==
    IF k = n THEN best
    ELSE argmaxScanLast(row, n, k + 1, IF row[k] >= row[best] THEN k ELSE best)

\* np.argmax scans the row once and keeps the first maximum
RECURSIVE argmaxScan(_, _, _, _)
argmaxScan(row, n, k, best) ==
    IF k = n THEN best
    ELSE argmaxScan(row, n, k + 1, IF row[k] > row[best] THEN k ELSE best)

argmaxLast(cm, i, b) ==
    argmaxScanLast([j \in DOMAIN cm |-> cm[i][j][b]], NumPieces(cm), 1, 0)

\* np.argmax(CM[i,:,b])
argmax(cm, i, b) ==
    argmaxScan([j \in DOMAIN cm |-> cm[i][j][b]], NumPieces(cm), 1, 0)

\* the tensor the loop of lines 28-32 fills in, from the (already zeroed) CM
BestBuddiesLoop(cm) ==
    [i \in DOMAIN cm |-> [j \in DOMAIN cm |-> [b \in Border |->
        LET best_neighbour == argmax(cm, i, b)
        IN  IF j = best_neighbour /\ argmax(cm, best_neighbour, opposite(b)) = i
            THEN 1 ELSE 0]]]

\* BestBuddies_matrix(CM, diag): the caller's tensor after the call, and BB
BestBuddies_matrix(cm, diag) ==
    LET cm1 == IF diag THEN fill_diagonal(cm) ELSE cm
    IN  [CM |-> cm1, BB |-> BestBuddiesLoop(cm1)]

-----------------------------------------------------------------------------
(* Board, Slot, Piece (puzzle.py) *)

NoPosition == <<-1, -1>>

Cells(sh) == (0 .. sh[1] - 1) \X (0 .. sh[2] - 1)

Slot(id) == [kind |-> "Slot", id |-> id, available |-> FALSE]

PieceRef(p) == [kind |-> "Piece", id |-> p]

IsSlot(x) == x.kind = "Slot"

\* Board(n_rows, n_cols)
NewBoard(sh) == [c \in Cells(sh) |-> Slot(c[1] * sh[2] + c[2])]

Bag(sh) == Ids(sh[1] * sh[2])

\* Board.neighbors(i, j): the (border, cell) pairs, in the order yielded
neighbors(sh, i, j) ==
    (IF i > 0 THEN << <<TOP, <<i - 1, j>> >> >> ELSE << >>) \o
    (IF j < sh[2] - 1 THEN << <<RIGHT, <<i, j + 1>> >> >> ELSE << >>) \o
    (IF i < sh[1] - 1 THEN << <<BOTTOM, <<i + 1, j>> >> >> ELSE << >>) \o
    (IF j > 0 THEN << <<LEFT, <<i, j - 1>> >> >> ELSE << >>)

NeighborCells(sh, c) ==
    { neighbors(sh, c[1], c[2])[k][2] : k \in 1 .. Len(neighbors(sh, c[1], c[2])) }

-----------------------------------------------------------------------------
(* SpecBB: BestBuddies_matrix applied to a bounded family of tensors *)

NoResult == [raised |-> FALSE, value |-> << >>]

IdleSeg ==
    /\ n_iter = 0
    /\ segments = << >>
    /\ seed = NoPosition
    /\ segment = << >>
    /\ stack = << >>
    /\ calls = 0
    /\ result = NoResult

FreshPuzzle(sh, pics) ==
    /\ shape = sh
    /\ picture = pics
    /\ board = NewBoard(sh)
    /\ is_placed = [p \in Bag(sh) |-> FALSE]
    /\ position = [p \in Bag(sh) |-> NoPosition]

InitBB ==
    /\ \E n \in 1 .. MaxPieces :
         /\ FreshPuzzle(<<1, n>>, [p \in Ids(n) |-> 1])
         /\ CM \in CMInputs(n)
    /\ BB = << >>
    /\ pc = "bb_input"
    /\ IdleSeg

BestBuddiesCall(diag) ==
    /\ pc = "bb_input"
    /\ LET r == BestBuddies_matrix(CM, diag)
       IN  /\ CM' = r.CM
           /\ BB' = r.BB
    /\ pc' = "bb_done"
    /\ UNCHANGED <<boardVars, segVars>>

BBCallDiag == BestBuddiesCall(TRUE)

BBCallNoDiag == BestBuddiesCall(FALSE)

NextBB == BBCallDiag \/ BBCallNoDiag

SpecBB == InitBB /\ [][NextBB]_vars


-----------------------------------------------------------------------------
(* Puzzle.place, remove_all_but_segment, Puzzle.clean *)

\* Piece.__eq__: np.allclose(self.picture, other.picture)
PieceEq(p, q) == picture[p] = picture[q]

\* `x in segment` for a board cell x: a Slot equals no Piece
InSegment(x, seg) ==
    /\ ~IsSlot(x)
    /\ \E k \in 1 .. Len(seg) : PieceEq(x.id, seg[k])

\* Puzzle.place(piece, coords); a failed assertion leaves the state alone
place(p, c) ==
    /\ pc = "idle"
    /\ IsSlot(board[c])
    /\ ~is_placed[p]
    /\ board' = [x \in Cells(shape) |->
           IF x = c THEN PieceRef(p)
           ELSE IF x \in NeighborCells(shape, c) /\ IsSlot(board[x])
                THEN [board[x] EXCEPT !.available = TRUE]
                ELSE board[x]]
    /\ is_placed' = [is_placed EXCEPT ![p] = TRUE]
    /\ position' = [position EXCEPT ![p] = c]
    /\ UNCHANGED <<shape, picture, CM, BB, pc, segVars>>

\* a pruning that resets the cells but forgets the _is_placed flags
remove_keeps_flag(seg) ==
    /\ pc = "idle"
    /\ board' = [c \in Cells(shape) |->
           IF ~InSegment(board[c], seg)
           THEN Slot(c[1] * shape[1] + c[2])
           ELSE board[c]]
    /\ UNCHANGED <<shape, picture, is_placed, position, CM, BB, pc, segVars>>

\* remove_all_but_segment(puzzle, segment)
remove_all_but_segment(seg) ==
    /\ pc = "idle"
    /\ is_placed' = [p \in DOMAIN is_placed |->
           IF \E c \in Cells(shape) :
                  board[c] = PieceRef(p) /\ ~InSegment(board[c], seg)
           THEN FALSE
           ELSE is_placed[p]]
    /\ board' = [c \in Cells(shape) |->
           IF ~InSegment(board[c], seg)
           THEN Slot(c[1] * shape[1] + c[2])
           ELSE board[c]]
    /\ UNCHANGED <<shape, picture, position, CM, BB, pc, segVars>>

\* Puzzle.clean()
clean ==
    /\ pc = "idle"
    /\ board' = NewBoard(shape)
    /\ is_placed' = [p \in DOMAIN is_placed |-> FALSE]
    /\ UNCHANGED <<shape, picture, position, CM, BB, pc, segVars>>

\* a list holding the pieces of S, lowest id first
RECURSIVE SetToSeq(_)
SetToSeq(S) ==
    IF S = {} THEN << >>
    ELSE LET m == CHOOSE x \in S : \A y \in S : x <= y
         IN  <<m>> \o SetToSeq(S \ {m})

Elems(seq) == { seq[k] : k \in 1 .. Len(seq) }

\* every way pictures repeat among the pieces; pictures are only compared
\* with one another, so they are numbered in order of first appearance
Pictures(sh) ==
    { f \in [Bag(sh) -> 1 .. NumPics] :
        /\ f[0] = 1
        /\ \A p \in Bag(sh) : f[p] = 1 \/ \E q \in 0 .. p - 1 : f[q] = f[p] - 1 }

\* pictures repeating with period NumPics, as a tiled image gives
TiledPictures(sh) == { [p \in Bag(sh) |-> 1 + (p % NumPics)] }

\* a shuffled puzzle and the BB its driver computed from some tensor; the
\* driver keeps BB only (no operation on the board reads CM)
InitPuzzle(sh, pictures, tensors) ==
    /\ \E pics \in pictures : FreshPuzzle(sh, pics)
    /\ BB \in { BestBuddies_matrix(cm, TRUE).BB : cm \in tensors }
    /\ CM = << >>
    /\ pc = "idle"
    /\ IdleSeg

ZeroOnly(sh) == {ZeroTensor(sh[1] * sh[2])}

\* the ways the pieces of the bag tile the image
Layouts(sh) ==
    { L \in [Cells(sh) -> Bag(sh)] : \A c, d \in Cells(sh) : c # d => L[c] # L[d] }

\* the tensor of a cleanly cut image: j scores 1 on side b of i exactly when
\* j is the neighbour of i on that side in the image
LayoutTensor(sh, L) ==
    [i \in Bag(sh) |-> [j \in Bag(sh) |-> [b \in Border |->
        IF \E c \in Cells(sh) :
              /\ L[c] = i
              /\ \E k \in 1 .. Len(neighbors(sh, c[1], c[2])) :
                    /\ neighbors(sh, c[1], c[2])[k][1] = b
                    /\ L[neighbors(sh, c[1], c[2])[k][2]] = j
        THEN 1 ELSE 0]]]

SegTensors(sh) ==
    ZeroOnly(sh) \cup { LayoutTensor(sh, L) : L \in Layouts(sh) }

InitBoard == \E sh \in BoardShapes : InitPuzzle(sh, Pictures(sh), ZeroOnly(sh))

Place == \E p \in Bag(shape), c \in Cells(shape) : place(p, c)

RemoveAllButSegment == \E S \in SUBSET Bag(shape) : remove_all_but_segment(SetToSeq(S))

NextBoard == Place \/ RemoveAllButSegment \/ clean

SpecBoard == InitBoard /\ [][NextBoard]_vars


-----------------------------------------------------------------------------
(* find_segment and segmenter (both segmenter.py files) *)

Max2(a, b) == IF a >= b THEN a ELSE b

Min2(a, b) == IF a <= b THEN a ELSE b

\* pomeranz_solver/segmenter.py: max(5, int(rows * cols / 5))
default_n_iter_pomeranz(sh) == Max2(5, (sh[1] * sh[2]) \div 5)

\* jigsolver/segmenter.py: min(5, int(rows * cols / 5))
default_n_iter_legacy(sh) == Min2(5, (sh[1] * sh[2]) \div 5)

\* segmenter(puzzle, BB) or segmenter(puzzle, BB, n_iter=arg); arg = 0 is
\* n_iter=False. The caller fixes the number of trials and empties `segments`.
segmenter_call(n) ==
    /\ pc = "idle"
    /\ pc' = "loop"
    /\ n_iter' = n
    /\ segments' = << >>
    /\ UNCHANGED <<boardVars, CM, BB, seed, segment, stack, calls, result>>

SegmenterPomeranz == segmenter_call(default_n_iter_pomeranz(shape))

SegmenterLegacy == segmenter_call(default_n_iter_legacy(shape))

SegmenterExplicit == \E n \in 1 .. MaxIter : segmenter_call(n)

\* one pass of `for i in range(n_iter)`: draw the seed, call
\* find_segment(puzzle, [], (init_col, init_row), BB)
trial_start(pos) ==
    /\ pc = "loop"
    /\ Len(segments) < n_iter
    /\ seed' = pos
    /\ segment' = << >>
    /\ stack' = << [pos |-> pos, k |-> 1] >>
    /\ calls' = 0
    /\ pc' = "find"
    /\ UNCHANGED <<boardVars, CM, BB, n_iter, segments, result>>

TrialStart ==
    \E init_col \in 0 .. shape[1] - 1, init_row \in 0 .. shape[2] - 1 :
        trial_start(<<init_col, init_row>>)

\* what the running call iterates over: nothing when its cell is a Slot
\* (the early return), else the neighbours of its cell
FrameNeighbors(fr) ==
    IF IsSlot(board[fr.pos]) THEN << >>
    ELSE neighbors(shape, fr.pos[1], fr.pos[2])

\* the condition without its `neighbor not in segment` guard
should_add_unguarded(cur, neighbor, border, seg) ==
    /\ ~IsSlot(neighbor)
    /\ BB[cur.id][neighbor.id][border] # 0

\* the condition of line 52 (line 12 of jigsolver/segmenter.py)
should_add(cur, neighbor, border, seg) ==
    /\ ~IsSlot(neighbor)
    /\ ~InSegment(neighbor, seg)
    /\ BB[cur.id][neighbor.id][border] # 0

\* one iteration of `for border, neighbor in puzzle.board.neighbors(...)`
FindVisit ==
    /\ pc = "find"
    /\ LET top == Len(stack)
           fr == stack[top]
           nb == FrameNeighbors(fr)
       IN  /\ fr.k <= Len(nb)
           /\ LET border == nb[fr.k][1]
                  neighbor == board[nb[fr.k][2]]
                  cur == board[fr.pos]
              IN  IF should_add(cur, neighbor, border, segment)
                  THEN /\ segment' = Append(segment, neighbor.id)
                       /\ stack' = Append([stack EXCEPT ![top].k = fr.k + 1],
                                          [pos |-> position[neighbor.id], k |-> 1])
                       /\ calls' = calls + 1
                  ELSE /\ stack' = [stack EXCEPT ![top].k = fr.k + 1]
                       /\ UNCHANGED <<segment, calls>>
    /\ UNCHANGED <<boardVars, CM, BB, pc, n_iter, segments, seed, result>>

\* `return segment`: back in the calling frame, or in segmenter, which
\* appends the segment to `segments`
FindReturn ==
    /\ pc = "find"
    /\ LET top == Len(stack)
       IN  /\ stack[top].k > Len(FrameNeighbors(stack[top]))
           /\ stack' = SubSeq(stack, 1, top - 1)
           /\ IF top = 1
              THEN /\ segments' = Append(segments, segment)
                   /\ pc' = "loop"
              ELSE UNCHANGED <<segments, pc>>
    /\ UNCHANGED <<boardVars, CM, BB, n_iter, seed, segment, calls, result>>

\* max(segments, key=len): the first of the longest; ValueError on []
RECURSIVE BiggestFrom(_, _, _)
BiggestFrom(segs, k, best) ==
    IF k > Len(segs) THEN segs[best]
    ELSE BiggestFrom(segs, k + 1, IF Len(segs[k]) > Len(segs[best]) THEN k ELSE best)

SegmenterReturn ==
    /\ pc = "loop"
    /\ Len(segments) = n_iter
    /\ result' = IF segments = << >>
                 THEN [raised |-> TRUE, value |-> << >>]
                 ELSE [raised |-> FALSE, value |-> BiggestFrom(segments, 2, 1)]
    /\ pc' = "returned"
    /\ UNCHANGED <<boardVars, CM, BB, n_iter, segments, seed, segment, stack, calls>>

InitSeg == \E sh \in BoardShapes : InitPuzzle(sh, Pictures(sh), SegTensors(sh))

NextSeg ==
    \/ Place
    \/ SegmenterExplicit
    \/ TrialStart
    \/ FindVisit
    \/ FindReturn
    \/ SegmenterReturn

SpecSeg == InitSeg /\ [][NextSeg]_vars

TrialShapes == (1 .. MaxTrialRows) \X (1 .. MaxTrialCols)

InitTrials == \E sh \in TrialShapes : InitPuzzle(sh, TiledPictures(sh), ZeroOnly(sh))

NextTrials ==
    \/ SegmenterPomeranz
    \/ SegmenterLegacy
    \/ TrialStart
    \/ FindReturn
    \/ SegmenterReturn

SpecTrials == InitTrials /\ [][NextTrials]_vars


-----------------------------------------------------------------------------
(* Properties of BestBuddies_matrix, under SpecBB *)

\* j is the lowest index at which row CM[i,:,b] is largest
IsLowestArgmax(cm, i, b, j) ==
    \A k \in DOMAIN cm :
        /\ cm[i][k][b] <= cm[i][j][b]
        /\ k < j => cm[i][k][b] < cm[i][j][b]

\* C1: once BestBuddies_matrix has returned, every true entry BB[i,j,d] has
\* j the (lowest-index) argmax of CM[i,:,d] and i the (lowest-index) argmax
\* of CM[j,:,opposite(d)], CM being the caller's tensor as the call left it.
C1_BestBuddyMutuality ==
    pc = "bb_done" =>
        \A i \in DOMAIN BB, j \in DOMAIN BB, d \in Border :
            BB[i][j][d] = 1 =>
                /\ IsLowestArgmax(CM, i, d, j)
                /\ IsLowestArgmax(CM, j, (d + 2) % 4, i)

\* C1's case: two different pieces are best buddies and a tie was broken
C1_Witness ==
    /\ pc = "bb_done"
    /\ \E i \in DOMAIN BB, j \in DOMAIN BB, d \in Border :
          /\ i # j
          /\ BB[i][j][d] = 1
          /\ CM[i][j][d] > 0
          /\ CM[j][i][(d + 2) % 4] = 0

\* C2: for a single piece and the all-zero 1x1x4 tensor, every entry of the
\* returned BB is false.
C2_SinglePieceAllFalse ==
    [][ (pc = "bb_input" /\ CM = ZeroTensor(1))
            => (\A d \in Border : BB'[0][0][d] = 0) ]_vars

\* C3: BestBuddies_matrix leaves the caller's CM as it found it, whatever
\* the diag flag.
C3_NoSideEffect ==
    [][ pc = "bb_input" => CM' = CM ]_vars

\* C9: the returned BB is mirrored: BB[i,j,d] true implies
\* BB[j,i,opposite(d)] true.
C9_Mirrored ==
    pc = "bb_done" =>
        \A i \in DOMAIN BB, j \in DOMAIN BB, d \in Border :
            BB[i][j][d] = 1 => BB[j][i][(d + 2) % 4] = 1

\* C9's case: a pair of different pieces, each written by its own pass of
\* the loop, both sides scoring above zero
C9_Witness ==
    /\ pc = "bb_done"
    /\ \E i \in DOMAIN BB, j \in DOMAIN BB, d \in Border :
          /\ i < j
          /\ BB[i][j][d] = 1
          /\ BB[j][i][(d + 2) % 4] = 1
          /\ CM[i][j][d] > 0
          /\ CM[j][i][(d + 2) % 4] > 0

-----------------------------------------------------------------------------
(* Properties of the segment search, under SpecSeg and SpecTrials *)

OnBoard == { p \in Bag(shape) : \E c \in Cells(shape) : board[c] = PieceRef(p) }

CellOf(p) == CHOOSE c \in Cells(shape) : board[c] = PieceRef(p)

\* the placed pieces q next to p on a side d with BB[p,q,d] true
BuddiesNextTo(p) ==
    LET c == CellOf(p)
        nb == neighbors(shape, c[1], c[2])
    IN  { q \in OnBoard : \E k \in 1 .. Len(nb) :
            /\ board[nb[k][2]] = PieceRef(q)
            /\ BB[p][q][nb[k][1]] # 0 }

RECURSIVE ChainClosure(_)
ChainClosure(S) ==
    LET T == S \cup UNION { BuddiesNextTo(p) : p \in S }
    IN  IF T = S THEN S ELSE ChainClosure(T)

\* the pieces a chain of one or more best-buddy steps reaches from p
ReachableFrom(p) == ChainClosure(BuddiesNextTo(p))

\* C4: a trial seeded at a cell holding a piece collects every placed piece
\* other than the seed that a chain of board-adjacent best-buddy steps
\* reaches from the seed.
C4_CollectsReachable ==
    (pc \in {"loop", "returned"} /\ segments # << >> /\ ~IsSlot(board[seed])) =>
        (ReachableFrom(board[seed].id) \ {board[seed].id})
            \subseteq Elems(segments[Len(segments)])

\* C5: every member of a returned segment of size > 1 has another member
\* next to it on the board, on a side where BB holds between them.
C5_SegmentConsistent ==
    (pc = "returned" /\ ~result.raised /\ Len(result.value) > 1) =>
        \A k \in 1 .. Len(result.value) :
            (BuddiesNextTo(result.value[k]) \cap Elems(result.value))
                \ {result.value[k]} # {}

\* C7: called without a trial count, segmenter (either file) runs exactly
\* max(5, floor(rows*cols/5)) trials, at least 5, and returns a segment.
C7_DefaultTrials ==
    pc = "returned" =>
        /\ ~result.raised
        /\ Len(segments) = Max2(5, (shape[1] * shape[2]) \div 5)
        /\ Len(segments) >= 5

NumPlaced == Cardinality({ p \in Bag(shape) : is_placed[p] })

\* C8: while find_segment runs, every recursive call has been preceded by
\* appending a placed piece that was not yet in the segment; so the calls
\* made, and the depth of the recursion, never exceed the number of placed
\* pieces, and the search cannot go on for ever.
C8_BoundedRecursion ==
    pc = "find" =>
        /\ calls = Len(segment)
        /\ \A a, b \in 1 .. Len(segment) : a # b => segment[a] # segment[b]
        /\ \A a \in 1 .. Len(segment) : is_placed[segment[a]]
        /\ calls <= NumPlaced
        /\ Len(stack) <= calls + 1

\* C8's case: the search went round the grid and came back to its seed
C8_Witness ==
    /\ pc = "find"
    /\ calls = 4
    /\ NumPlaced = 4
    /\ board[seed].id \in Elems(segment)

-----------------------------------------------------------------------------
(* Properties of the board operations, under SpecBoard *)

CellsHolding(p) == { c \in Cells(shape) : board[c] = PieceRef(p) }

\* C6: remove_all_but_segment, given a segment of placed pieces, leaves the
\* pieces of the segment in their cells (placed, position kept) and turns
\* every other cell into a Slot, clearing the flag of each piece removed.
C6_PruneExact ==
    [][ \A S \in SUBSET Bag(shape) :
          ((\A p \in S : is_placed[p]) /\ remove_all_but_segment(SetToSeq(S))) =>
              \A c \in Cells(shape) :
                  IF ~IsSlot(board[c]) /\ board[c].id \in S
                  THEN /\ board'[c] = board[c]
                       /\ is_placed'[board[c].id]
                       /\ position'[board[c].id] = c
                  ELSE /\ IsSlot(board'[c])
                       /\ ~IsSlot(board[c]) => ~is_placed'[board[c].id] ]_vars

\* C10: a piece is flagged as placed exactly when it sits in one cell of
\* the board, its position is then that cell, and no piece sits in two.
C10_PlacedIffOnBoard ==
    \A p \in Bag(shape) :
        /\ Cardinality(CellsHolding(p)) <= 1
        /\ is_placed[p] <=> Cardinality(CellsHolding(p)) = 1
        /\ is_placed[p] => CellsHolding(p) = {position[p]}

\* C10's case: a piece sits in the cell another piece was pruned from
C10_Witness ==
    \E p \in Bag(shape), q \in Bag(shape) :
        /\ is_placed[p]
        /\ ~is_placed[q]
        /\ position[q] = position[p]
        /\ \E r \in Bag(shape) : r # p /\ is_placed[r]

=============================================================================
